---- MODULE Spec2Model ----
(***************************************************************************)
(* Order lifecycle and stock consistency of the online store:              *)
(* OrderService (internal/services/orders.go), ProductService              *)
(* (internal/services/products.go), the MQTT handlers                      *)
(* (internal/mqtt/handlers.go) and the MQTT client's Publish               *)
(* (internal/mqtt/client.go), running against the MariaDB schema of        *)
(* internal/database/connection.go; and the token AuthService.Login        *)
(* issues against the AuthRequired middleware of the protected routes.     *)
(*                                                                         *)
(* The database is InnoDB at its default isolation level (REPEATABLE       *)
(* READ): a plain SELECT inside a transaction is a non-locking snapshot    *)
(* read, an UPDATE takes an exclusive lock on the row until the            *)
(* transaction ends, and an INSERT into orders takes a shared lock on the  *)
(* products row its FOREIGN KEY references.  Writes of an open             *)
(* transaction are buffered in the transaction (tx[w].pendingOrder,        *)
(* tx[w].pendingStock) and reach the tables only at Commit.                *)
(*                                                                         *)
(* Timestamps, names and descriptions carry no decision in the code and    *)
(* are left out of rows and events.                                        *)
(***************************************************************************)
EXTENDS Integers, Sequences, FiniteSets, TLC

\* ---------------------------------------------------------------- bounds
\* MaxOps: requests and inbound messages the system is given in one run
MaxOps == 2

\* ------------------------------------------------------ program constants
LowStockThreshold == 10
MaxOpenConns == 25

\* ------------------------------------------------------------ small sets
Workers == {1, 2}
Users == {1, 2}
\* the user whose requests a run follows; user 1 owns the earlier order
Callers == {2}
ProductIds == {1, 2}
\* an id no product has
MissingProductID == Cardinality(ProductIds) + 1
\* the store as a run finds it: one unit left of product 1, one unit above
\* the low stock threshold of product 2, and one order placed earlier
InitialStock == (1 :> 1) @@ (2 :> 11)
InitialPrice == (1 :> 100) @@ (2 :> 250)
InitialOrders ==
  1 :> [user_id |-> 1, product_id |-> 2, quantity |-> 1,
        total_cents |-> 250, status |-> "pending"]
\* an id no order has and no order of the run gets
MissingOrderID == MaxOps + 10
Quantities == {1, 2}
\* quantities the binding of OrderRequest refuses
RejectedQuantities == {-1, 0}
Statuses == {"pending", "paid", "shipped", "delivered"}

NoRow == [absent |-> TRUE]
NoOrderID == 0

VARIABLES price_cents, stock_quantity, orders, nextOrderID,
          sLock, xLock, pc, tx, leaked,
          nops, hres

vars == <<price_cents, stock_quantity, orders, nextOrderID,
          sLock, xLock, pc, tx, leaked,
          nops, hres>>

dbVars == <<price_cents, stock_quantity, orders>>

\* --------------------------------------------------------------- helpers
IdleTx ==
  [userID |-> 0, ProductID |-> 0, Quantity |-> 0,
   PriceCents |-> 0, StockQuantity |-> 0, totalCents |-> 0,
   orderID |-> NoOrderID, newStock |-> 0,
   pendingOrder |-> NoRow, pendingStock |-> FALSE,
   state |-> "none", ret |-> "none", pubFailed |-> FALSE, emitted |-> <<>>]

\* what the last handler or service call did: its arguments and what it returned
\* and the events it published
Result(op, id, arg, status, err, pubFailed, emitted) ==
  [op |-> op, id |-> id, arg |-> arg, status |-> status, err |-> err,
   pubFailed |-> pubFailed, emitted |-> emitted, rows |-> <<>>]

\* the result of a query that returns rows: the ids of the rows, in the
\* order returned
RowsResult(op, id, err, rows) ==
  [Result(op, id, 0, "", err, FALSE, <<>>) EXCEPT !.rows = rows]

NoResult == Result("none", 0, 0, "", "none", FALSE, <<>>)

\* connections of the pool held by transactions that have not ended
OpenConns == leaked + Cardinality({w \in Workers : tx[w].state = "open"})

\* Client.Publish: the event reaches the broker and joins the events the
\* operation has published, or the token carries an error and nothing is
\* published
Publish(events, event, ok) == IF ok THEN Append(events, event) ELSE events

Init ==
  /\ stock_quantity = InitialStock
  /\ price_cents = InitialPrice
  /\ orders = InitialOrders
  /\ nextOrderID = 2
  /\ sLock = [p \in ProductIds |-> {}]
  /\ xLock = [p \in ProductIds |-> {}]
  /\ pc = [w \in Workers |-> "idle"]
  /\ tx = [w \in Workers |-> IdleTx]
  /\ leaked = 0
  /\ nops = 0
  /\ hres = NoResult

\* the service after MaxOpenConns - 1 orders were refused for insufficient
\* stock: no table has changed (the refusal comes before the INSERT) and
\* each refused call has left its connection checked out
InitPool ==
  /\ stock_quantity = InitialStock
  /\ price_cents = InitialPrice
  /\ orders = InitialOrders
  /\ nextOrderID = 2
  /\ sLock = [p \in ProductIds |-> {}]
  /\ xLock = [p \in ProductIds |-> {}]
  /\ pc = [w \in Workers |-> "idle"]
  /\ tx = [w \in Workers |-> IdleTx]
  /\ leaked = MaxOpenConns - 1
  /\ nops = 0
  /\ hres = NoResult

\* ------------------------------------------------ the transaction's end
\* tx.Rollback (the deferred func, orders.go:39-43) and the lock release of
\* tx.Commit: the rows the transaction locked are free again
ReleaseLocks(w) ==
  /\ sLock' = [p \in ProductIds |-> sLock[p] \ {w}]
  /\ xLock' = [p \in ProductIds |-> xLock[p] \ {w}]

\* return nil, err with err != nil: the deferred func rolls the transaction
\* back, the buffered insert and stock write are dropped
ReturnRolledBack(w, msg) ==
  /\ tx' = [tx EXCEPT ![w].ret = msg, ![w].state = "rolledback",
                      ![w].pendingOrder = NoRow, ![w].pendingStock = FALSE]
  /\ pc' = [pc EXCEPT ![w] = "done"]
  /\ ReleaseLocks(w)

\* --------------------------------------------- OrderService.CreateOrder
\* AdmittedOrderRequest without the tags of Quantity
AdmittedOrderRequestAnyQuantity(req) == req.ProductID # 0

\* the gateway's binding of OrderRequest: product_id required (non-zero),
\* quantity required and min=1
AdmittedOrderRequest(req) == req.ProductID # 0 /\ req.Quantity >= 1

\* part_006:34-38: ShouldBindJSON refuses the request, the handler answers
\* 400 and does not call the service
CreateOrderBadRequest(userID, req) ==
  /\ nops < MaxOps
  /\ ~AdmittedOrderRequest(req)
  /\ nops' = nops + 1
  /\ hres' = Result("CreateOrder", req.ProductID, req.Quantity, "", "invalid request", FALSE, <<>>)
  /\ UNCHANGED <<dbVars, nextOrderID, sLock, xLock, pc, tx, leaked>>

\* InsufficientStock with the comparison off by one
InsufficientStockOffByOne(stock, quantity) == stock + 1 < quantity

\* the check of orders.go:60
InsufficientStock(stock, quantity) == stock < quantity

\* idle workers are alike: the request goes to the first of them
FirstIdle(w) == \A v \in Workers : v < w => pc[v] # "idle"

\* CreateOrderBegin with no Rollback on the product-not-found path
CreateOrderBeginLeakingNotFound(w, userID, req) ==
  /\ pc[w] = "idle"
  /\ FirstIdle(w)
  /\ nops < MaxOps
  /\ AdmittedOrderRequest(req)
  /\ OpenConns < MaxOpenConns
  /\ nops' = nops + 1
  /\ LET call == [IdleTx EXCEPT !.userID = userID, !.ProductID = req.ProductID,
                                !.Quantity = req.Quantity]
     IN \/ \* db.Begin fails
           /\ tx' = [tx EXCEPT ![w] = [call EXCEPT !.ret = "failed to start transaction"]]
           /\ pc' = [pc EXCEPT ![w] = "done"]
           /\ UNCHANGED leaked
        \/ \* the SELECT fails: err != nil, the deferred func rolls back
           /\ tx' = [tx EXCEPT ![w] = [call EXCEPT !.ret = "failed to get product",
                                                   !.state = "rolledback"]]
           /\ pc' = [pc EXCEPT ![w] = "done"]
           /\ UNCHANGED leaked
        \/ \* sql.ErrNoRows: err != nil, the deferred func rolls back
           /\ req.ProductID \notin ProductIds
           /\ tx' = [tx EXCEPT ![w] = [call EXCEPT !.ret = "product not found",
                                                   !.state = "leaked"]]
           /\ pc' = [pc EXCEPT ![w] = "done"]
           /\ leaked' = leaked + 1
        \/ /\ req.ProductID \in ProductIds
           /\ LET read == [call EXCEPT !.PriceCents = price_cents[req.ProductID],
                                       !.StockQuantity = stock_quantity[req.ProductID]]
              IN IF InsufficientStock(read.StockQuantity, req.Quantity)
                 THEN \* err is nil here: the deferred func does not roll back and
                      \* the transaction is never ended
                      /\ tx' = [tx EXCEPT ![w] = [read EXCEPT !.ret = "insufficient stock",
                                                              !.state = "leaked"]]
                      /\ pc' = [pc EXCEPT ![w] = "done"]
                      /\ leaked' = leaked + 1
                 ELSE /\ tx' = [tx EXCEPT ![w] = [read EXCEPT !.state = "open"]]
                      /\ pc' = [pc EXCEPT ![w] = "insert"]
                      /\ UNCHANGED leaked
  /\ UNCHANGED <<dbVars, nextOrderID, sLock, xLock, hres>>

\* orders.go:33-62: Begin, the snapshot read of the product, the stock check
CreateOrderBegin(w, userID, req) ==
  /\ pc[w] = "idle"
  /\ FirstIdle(w)
  /\ nops < MaxOps
  /\ AdmittedOrderRequest(req)
  /\ OpenConns < MaxOpenConns
  /\ nops' = nops + 1
  /\ LET call == [IdleTx EXCEPT !.userID = userID, !.ProductID = req.ProductID,
                                !.Quantity = req.Quantity]
     IN \/ \* db.Begin fails
           /\ tx' = [tx EXCEPT ![w] = [call EXCEPT !.ret = "failed to start transaction"]]
           /\ pc' = [pc EXCEPT ![w] = "done"]
           /\ UNCHANGED leaked
        \/ \* the SELECT fails: err != nil, the deferred func rolls back
           /\ tx' = [tx EXCEPT ![w] = [call EXCEPT !.ret = "failed to get product",
                                                   !.state = "rolledback"]]
           /\ pc' = [pc EXCEPT ![w] = "done"]
           /\ UNCHANGED leaked
        \/ \* sql.ErrNoRows: err != nil, the deferred func rolls back
           /\ req.ProductID \notin ProductIds
           /\ tx' = [tx EXCEPT ![w] = [call EXCEPT !.ret = "product not found",
                                                   !.state = "rolledback"]]
           /\ pc' = [pc EXCEPT ![w] = "done"]
           /\ UNCHANGED leaked
        \/ /\ req.ProductID \in ProductIds
           /\ LET read == [call EXCEPT !.PriceCents = price_cents[req.ProductID],
                                       !.StockQuantity = stock_quantity[req.ProductID]]
              IN IF InsufficientStock(read.StockQuantity, req.Quantity)
                 THEN \* err is nil here: the deferred func does not roll back and
                      \* the transaction is never ended
                      /\ tx' = [tx EXCEPT ![w] = [read EXCEPT !.ret = "insufficient stock",
                                                              !.state = "leaked"]]
                      /\ pc' = [pc EXCEPT ![w] = "done"]
                      /\ leaked' = leaked + 1
                 ELSE /\ tx' = [tx EXCEPT ![w] = [read EXCEPT !.state = "open"]]
                      /\ pc' = [pc EXCEPT ![w] = "insert"]
                      /\ UNCHANGED leaked
  /\ UNCHANGED <<dbVars, nextOrderID, sLock, xLock, hres>>

\* TotalCents without the quantity
TotalCentsUnitPrice(priceCents, quantity) == priceCents

\* orders.go:65
TotalCents(priceCents, quantity) == priceCents * quantity

\* NewOrderRow inserted as already paid
NewOrderRowPaid(userID, productID, quantity, totalCents) ==
  [user_id |-> userID, product_id |-> productID, quantity |-> quantity,
   total_cents |-> totalCents, status |-> "paid"]

\* the row of orders.go:68-71
NewOrderRow(userID, productID, quantity, totalCents) ==
  [user_id |-> userID, product_id |-> productID, quantity |-> quantity,
   total_cents |-> totalCents, status |-> "pending"]

\* orders.go:64-79: the INSERT and LastInsertId.  The FOREIGN KEY check takes a
\* shared lock on the product row, so the INSERT waits while another
\* transaction holds that row exclusively.
CreateOrderInsert(w) ==
  /\ pc[w] = "insert"
  /\ LET t == tx[w]
         total == TotalCents(t.PriceCents, t.Quantity)
     IN \/ \* the INSERT fails
           /\ ReturnRolledBack(w, "failed to create order")
           /\ UNCHANGED nextOrderID
        \/ \* the INSERT is done, LastInsertId fails
           /\ xLock[t.ProductID] \subseteq {w}
           /\ nextOrderID' = nextOrderID + 1
           /\ ReturnRolledBack(w, "failed to get order ID")
        \/ /\ xLock[t.ProductID] \subseteq {w}
           /\ nextOrderID' = nextOrderID + 1
           /\ tx' = [tx EXCEPT ![w].totalCents = total,
                               ![w].orderID = nextOrderID,
                               ![w].pendingOrder =
                                  NewOrderRow(t.userID, t.ProductID, t.Quantity, total)]
           /\ sLock' = [sLock EXCEPT ![t.ProductID] = @ \cup {w}]
           /\ pc' = [pc EXCEPT ![w] = "update"]
           /\ UNCHANGED xLock
  /\ UNCHANGED <<dbVars, leaked, nops, hres>>

\* NewStock taking one unit whatever the quantity
NewStockLessOne(stockRead, quantity) == stockRead - 1

\* orders.go:82
NewStock(stockRead, quantity) == stockRead - quantity

\* the row is free for w to write: no other transaction holds a lock on it
RowFree(p, w) == xLock[p] \subseteq {w} /\ sLock[p] \subseteq {w}

\* orders.go:81-89: the UPDATE of the stock, with the value computed from the
\* snapshot read.  It waits for the row lock; a wait that cannot end (two
\* transactions each holding the shared lock) ends in the failure branch.
CreateOrderUpdateStock(w) ==
  /\ pc[w] = "update"
  /\ LET t == tx[w]
     IN \/ ReturnRolledBack(w, "failed to update stock")
        \/ /\ RowFree(t.ProductID, w)
           /\ tx' = [tx EXCEPT ![w].newStock = NewStock(t.StockQuantity, t.Quantity),
                               ![w].pendingStock = TRUE]
           /\ xLock' = [xLock EXCEPT ![t.ProductID] = {w}]
           /\ pc' = [pc EXCEPT ![w] = "commit"]
           /\ UNCHANGED sLock
  /\ UNCHANGED <<dbVars, nextOrderID, leaked, nops, hres>>

\* CommittedStock with the stock write lost
CommittedStockDropped(w) == stock_quantity

\* what tx.Commit writes to the tables: the buffered order row and stock
CommittedOrders(w) == (tx[w].orderID :> tx[w].pendingOrder) @@ orders

CommittedStock(w) == [stock_quantity EXCEPT ![tx[w].ProductID] = tx[w].newStock]

\* CreateOrderCommit going on to publish although Commit failed
CreateOrderCommitIgnoringError(w) ==
  /\ pc[w] = "commit"
  /\ \/ /\ tx' = [tx EXCEPT ![w].state = "rolledback",
                            ![w].pendingOrder = NoRow, ![w].pendingStock = FALSE]
        /\ ReleaseLocks(w)
        /\ pc' = [pc EXCEPT ![w] = "publish_created"]
        /\ UNCHANGED <<orders, stock_quantity>>
     \/ /\ orders' = CommittedOrders(w)
        /\ stock_quantity' = CommittedStock(w)
        /\ tx' = [tx EXCEPT ![w].state = "committed",
                            ![w].pendingOrder = NoRow, ![w].pendingStock = FALSE]
        /\ ReleaseLocks(w)
        /\ pc' = [pc EXCEPT ![w] = "publish_created"]
  /\ UNCHANGED <<price_cents, nextOrderID, leaked, nops, hres>>

\* orders.go:91-94
CreateOrderCommit(w) ==
  /\ pc[w] = "commit"
  /\ \/ /\ ReturnRolledBack(w, "failed to commit transaction")
        /\ UNCHANGED <<orders, stock_quantity>>
     \/ /\ orders' = CommittedOrders(w)
        /\ stock_quantity' = CommittedStock(w)
        /\ tx' = [tx EXCEPT ![w].state = "committed",
                            ![w].pendingOrder = NoRow, ![w].pendingStock = FALSE]
        /\ ReleaseLocks(w)
        /\ pc' = [pc EXCEPT ![w] = "publish_created"]
  /\ UNCHANGED <<price_cents, nextOrderID, leaked, nops, hres>>

\* models.OrderCreatedEvent as built at orders.go:108-115
OrderCreatedEvent(t) ==
  [topic |-> "order/created", order_id |-> t.orderID, user_id |-> t.userID,
   product_id |-> t.ProductID, quantity |-> t.Quantity, total_cents |-> t.totalCents]

\* LowStockAlert carrying the stock before the last unit left
LowStockAlertStockBefore(productID, currentStock) ==
  [topic |-> "inventory/low_stock", product_id |-> productID,
   current_stock |-> currentStock + 1, reorder_level |-> LowStockThreshold]

\* models.LowStockAlert as built at orders.go:123-129 and products.go:164-170
LowStockAlert(productID, currentStock) ==
  [topic |-> "inventory/low_stock", product_id |-> productID,
   current_stock |-> currentStock, reorder_level |-> LowStockThreshold]

\* IsLowStock with the threshold itself counted as low
IsLowStockInclusive(n) == n <= LowStockThreshold

\* the test of orders.go:122 and products.go:157
IsLowStock(n) == n < LowStockThreshold

\* what CreateOrder returns after a Publish: the error is printed, not returned
AfterPublish(t, event, ok) ==
  [t EXCEPT !.pubFailed = t.pubFailed \/ ~ok,
            !.emitted = Publish(t.emitted, event, ok)]

\* orders.go:96-119
CreateOrderPublishCreated(w) ==
  /\ pc[w] = "publish_created"
  /\ \E ok \in BOOLEAN :
       LET t == AfterPublish(tx[w], OrderCreatedEvent(tx[w]), ok)
       IN IF IsLowStock(tx[w].newStock)
          THEN /\ tx' = [tx EXCEPT ![w] = t]
               /\ pc' = [pc EXCEPT ![w] = "publish_low_stock"]
          ELSE /\ tx' = [tx EXCEPT ![w] = [t EXCEPT !.ret = "ok"]]
               /\ pc' = [pc EXCEPT ![w] = "done"]
  /\ UNCHANGED <<dbVars, nextOrderID, sLock, xLock, leaked, nops, hres>>

\* CreateOrderPublishLowStock returning the error of Publish
CreateOrderPublishLowStockReturningError(w) ==
  /\ pc[w] = "publish_low_stock"
  /\ \E ok \in BOOLEAN :
       /\ tx' = [tx EXCEPT ![w] =
                  [AfterPublish(tx[w], LowStockAlert(tx[w].ProductID, tx[w].newStock), ok)
                     EXCEPT !.ret = IF ok THEN "ok" ELSE "failed to publish"]]
       /\ pc' = [pc EXCEPT ![w] = "done"]
  /\ UNCHANGED <<dbVars, nextOrderID, sLock, xLock, leaked, nops, hres>>

\* orders.go:121-136
CreateOrderPublishLowStock(w) ==
  /\ pc[w] = "publish_low_stock"
  /\ \E ok \in BOOLEAN :
       /\ tx' = [tx EXCEPT ![w] =
                  [AfterPublish(tx[w], LowStockAlert(tx[w].ProductID, tx[w].newStock), ok)
                     EXCEPT !.ret = "ok"]]
       /\ pc' = [pc EXCEPT ![w] = "done"]
  /\ UNCHANGED <<dbVars, nextOrderID, sLock, xLock, leaked, nops, hres>>

\* orders.go:136 / the return nil, err paths: the call is over, its locals
\* are gone and the worker is free for the next request
CreateOrderReturn(w) ==
  /\ pc[w] = "done"
  /\ pc' = [pc EXCEPT ![w] = "idle"]
  /\ tx' = [tx EXCEPT ![w] = IdleTx]
  /\ UNCHANGED <<dbVars, nextOrderID, sLock, xLock, leaked, nops, hres>>

\* ------------------------------------------- ProductService.GetProduct
\* products.go:52-74, as UpdateStock and UpdateProduct use it: the error of
\* a query that ran (a query that fails is a branch of the caller)
GetProduct(id) == IF id \in ProductIds THEN "none" ELSE "product not found"

\* -------------------------------------------- ProductService.UpdateStock
\* SetStock adding to the stock instead of replacing it
SetStockAdding(productID, newStock) ==
  IF productID \in ProductIds
  THEN [stock_quantity EXCEPT ![productID] = @ + newStock]
  ELSE stock_quantity

\* the UPDATE of products.go:148-151 on the table
SetStock(productID, newStock) ==
  IF productID \in ProductIds
  THEN [stock_quantity EXCEPT ![productID] = newStock]
  ELSE stock_quantity

\* an autocommit UPDATE of a product row waits for the transactions that
\* hold a lock on the row
ProductRowFree(productID) ==
  productID \in ProductIds => (xLock[productID] = {} /\ sLock[productID] = {})

\* products.go:147-178
UpdateStock(productID, newStock) ==
  /\ OpenConns < MaxOpenConns
  /\ ProductRowFree(productID)
  /\ \/ \* the Exec fails
        /\ hres' = Result("UpdateStock", productID, newStock, "", "failed to update stock", FALSE, <<>>)
        /\ UNCHANGED stock_quantity
     \/ /\ stock_quantity' = SetStock(productID, newStock)
        /\ IF IsLowStock(newStock)
           THEN \/ \* the query of GetProduct fails
                   hres' = Result("UpdateStock", productID, newStock, "", "failed to get product", FALSE, <<>>)
                \/ IF GetProduct(productID) # "none"
                   THEN /\ hres' = Result("UpdateStock", productID, newStock, "", GetProduct(productID), FALSE, <<>>)
                   ELSE \E ok \in BOOLEAN :
                          hres' = Result("UpdateStock", productID, newStock, "", "none", ~ok, Publish(<<>>, LowStockAlert(productID, newStock), ok))
           ELSE /\ hres' = Result("UpdateStock", productID, newStock, "", "none", FALSE, <<>>)
  /\ UNCHANGED <<price_cents, orders>>

\* ------------------------------------------------- json.Unmarshal
\* a payload is well formed JSON or not; a field of it is <<v>>, or <<>> when
\* the payload does not carry it
Absent == <<>>
\* IsMalformed taking every payload for well formed
IsMalformedNever(payload) == FALSE

\* the error of json.Unmarshal at handlers.go:65 and handlers.go:89
IsMalformed(payload) == ~payload.wellformed

\* a field the payload does not carry keeps the zero value of its Go type
IntField(f) == IF f = Absent THEN 0 ELSE f[1]

\* handlers.go:60-68
DecodeInventoryUpdate(payload) ==
  [ProductID |-> IntField(payload.product_id), NewStock |-> IntField(payload.new_stock)]

\* handlers.go:84-92; the payload's status is decoded and not used
DecodePaymentConfirmed(payload) == [OrderID |-> IntField(payload.order_id)]

\* ---------------------------------------- Handlers.handleInventoryUpdate
\* handlers.go:56-77
handleInventoryUpdate(payload) ==
  /\ nops < MaxOps
  /\ nops' = nops + 1
  /\ IF IsMalformed(payload)
     THEN /\ hres' = Result("handleInventoryUpdate", 0, 0, "", "failed to parse", FALSE, <<>>)
          /\ UNCHANGED dbVars
     ELSE UpdateStock(DecodeInventoryUpdate(payload).ProductID,
                      DecodeInventoryUpdate(payload).NewStock)
  /\ UNCHANGED <<nextOrderID, sLock, xLock, pc, tx, leaked>>

\* ---------------------------------------- OrderService.UpdateOrderStatus
\* the row an open transaction has inserted is locked by it until it ends
OrderRowFree(orderID) ==
  \A w \in Workers : ~(tx[w].pendingOrder # NoRow /\ tx[w].orderID = orderID)

\* SetStatus with the write lost
SetStatusDropped(orderID, status) == orders

\* the UPDATE of orders.go:207-210 on the table
SetStatus(orderID, status) ==
  IF orderID \in DOMAIN orders
  THEN [orders EXCEPT ![orderID].status = status]
  ELSE orders

\* RowsAffected counting a row whatever the UPDATE found
RowsAffectedAlwaysOne(orderID, status) == 1

\* result.RowsAffected of orders.go:216: the driver reports the rows the
\* UPDATE changed (the DSN does not set clientFoundRows), so a row that
\* already holds the value counts for nothing
RowsAffected(orderID, status) ==
  IF orderID \in DOMAIN orders /\ orders[orderID].status # status THEN 1 ELSE 0

\* StatusChangedEvent saying paid whatever was written
StatusChangedEventAlwaysPaid(orderID, status) ==
  [topic |-> "order/status_changed", order_id |-> orderID, status |-> "paid"]

\* the event of orders.go:226-234
StatusChangedEvent(orderID, status) ==
  [topic |-> "order/status_changed", order_id |-> orderID, status |-> status]

\* orders.go:206-241
UpdateOrderStatus(orderID, status) ==
  /\ OpenConns < MaxOpenConns
  /\ OrderRowFree(orderID)
  /\ \/ \* the Exec fails
        /\ hres' = Result("UpdateOrderStatus", orderID, 0, status, "failed to update order status", FALSE, <<>>)
        /\ UNCHANGED orders
     \/ \* RowsAffected fails, after the UPDATE
        /\ orders' = SetStatus(orderID, status)
        /\ hres' = Result("UpdateOrderStatus", orderID, 0, status, "failed to get rows affected", FALSE, <<>>)
     \/ /\ orders' = SetStatus(orderID, status)
        /\ IF RowsAffected(orderID, status) = 0
           THEN /\ hres' = Result("UpdateOrderStatus", orderID, 0, status, "order not found", FALSE, <<>>)
           ELSE \E ok \in BOOLEAN :
                  hres' = Result("UpdateOrderStatus", orderID, 0, status, "none", ~ok, Publish(<<>>, StatusChangedEvent(orderID, status), ok))
  /\ UNCHANGED <<price_cents, stock_quantity>>

\* --------------------------------------- Handlers.handlePaymentConfirmed
\* handlePaymentConfirmed writing the status the payload carries
handlePaymentConfirmedWithPayloadStatus(payload) ==
  /\ nops < MaxOps
  /\ nops' = nops + 1
  /\ IF IsMalformed(payload)
     THEN /\ hres' = Result("handlePaymentConfirmed", 0, 0, "", "failed to parse", FALSE, <<>>)
          /\ UNCHANGED dbVars
     ELSE UpdateOrderStatus(DecodePaymentConfirmed(payload).OrderID,
                            IF payload.status = Absent THEN "" ELSE payload.status[1])
  /\ UNCHANGED <<nextOrderID, sLock, xLock, pc, tx, leaked>>

\* handlers.go:80-101
handlePaymentConfirmed(payload) ==
  /\ nops < MaxOps
  /\ nops' = nops + 1
  /\ IF IsMalformed(payload)
     THEN /\ hres' = Result("handlePaymentConfirmed", 0, 0, "", "failed to parse", FALSE, <<>>)
          /\ UNCHANGED dbVars
     ELSE UpdateOrderStatus(DecodePaymentConfirmed(payload).OrderID, "paid")
  /\ UNCHANGED <<nextOrderID, sLock, xLock, pc, tx, leaked>>

\* the service method called with any status of the enum, as the
\* OrderService interface of handlers.go:28-30 offers it
UpdateOrderStatusCall(orderID, status) ==
  /\ nops < MaxOps
  /\ nops' = nops + 1
  /\ UpdateOrderStatus(orderID, status)
  /\ UNCHANGED <<nextOrderID, sLock, xLock, pc, tx, leaked>>

\* ------------------------------------------ ProductService.UpdateProduct
\* the gateway's binding of ProductRequest: price_cents required and min=1,
\* stock_quantity required (non-zero) and min=0
AdmittedProductRequest(req) == req.PriceCents >= 1 /\ req.StockQuantity >= 1

\* the UPDATE of products.go:113-116 on the table
SetProduct(id, req) ==
  IF id \in ProductIds
  THEN <<[price_cents EXCEPT ![id] = req.PriceCents],
         [stock_quantity EXCEPT ![id] = req.StockQuantity]>>
  ELSE <<price_cents, stock_quantity>>

ProductUpdatedEvent(id) == [topic |-> "product/updated", product_id |-> id]

\* products.go:112-143, behind ProductHandler.UpdateProduct
UpdateProduct(id, req) ==
  /\ nops < MaxOps
  /\ nops' = nops + 1
  /\ AdmittedProductRequest(req)
  /\ OpenConns < MaxOpenConns
  /\ ProductRowFree(id)
  /\ \/ /\ hres' = Result("UpdateProduct", id, req.PriceCents, "", "failed to update product", FALSE, <<>>)
        /\ UNCHANGED <<price_cents, stock_quantity>>
     \/ /\ price_cents' = SetProduct(id, req)[1]
        /\ stock_quantity' = SetProduct(id, req)[2]
        /\ \/ \* the query of GetProduct fails
              hres' = Result("UpdateProduct", id, req.PriceCents, "", "failed to get product", FALSE, <<>>)
           \/ IF GetProduct(id) # "none"
              THEN /\ hres' = Result("UpdateProduct", id, req.PriceCents, "", GetProduct(id), FALSE, <<>>)
              ELSE \E ok \in BOOLEAN :
                     hres' = Result("UpdateProduct", id, req.PriceCents, "", "none", ~ok, Publish(<<>>, ProductUpdatedEvent(id), ok))
  /\ UNCHANGED <<orders, nextOrderID, sLock, xLock, pc, tx, leaked>>

\* ------------------------------------------------ OrderService.GetOrder
\* GetOrderRows without the user_id condition
GetOrderRowsOfAnyUser(orderID, userID) ==
  {id \in DOMAIN orders : id = orderID}

\* the rows the SELECT of orders.go:179-184 finds: WHERE o.id = ? AND
\* o.user_id = ? (the JOIN finds the product of every order, by the
\* FOREIGN KEY)
GetOrderRows(orderID, userID) ==
  {id \in DOMAIN orders : id = orderID /\ orders[id].user_id = userID}

\* models.OrderResponse as Scan fills it
OrderResponse(id) ==
  [ID |-> id, ProductID |-> orders[id].product_id, Quantity |-> orders[id].quantity,
   TotalCents |-> orders[id].total_cents, Status |-> orders[id].status]

\* OrderHandler.GetOrder: any error of the service is answered 404 with the
\* error's text, an order 200 with the order
GetOrderAnswer(err, order) ==
  [code |-> IF err = "none" THEN 200 ELSE 404, error |-> err, order |-> order]

\* orders.go:177-202 behind part_006:81-101: all the answers a request can
\* get in the current state
GetOrderOutcomes(orderID, userID) ==
  {GetOrderAnswer("failed to get order", NoRow)}
  \cup (IF GetOrderRows(orderID, userID) = {}
        THEN {GetOrderAnswer("order not found", NoRow)}
        ELSE {GetOrderAnswer("none", OrderResponse(orderID))})

GetOrder(orderID, userID) ==
  /\ nops < MaxOps
  /\ OpenConns < MaxOpenConns
  /\ nops' = nops + 1
  /\ \E r \in GetOrderOutcomes(orderID, userID) :
       hres' = Result("GetOrder", orderID, userID,
                      IF r.order = NoRow THEN "" ELSE r.order.Status, r.error, FALSE, <<>>)
  /\ UNCHANGED <<dbVars, nextOrderID, sLock, xLock, pc, tx, leaked>>

\* ------------------------------------------- OrderService.GetUserOrders
\* the rows WHERE o.user_id = ? selects (orders.go:145)
UserOrderIds(userID) == {id \in DOMAIN orders : orders[id].user_id = userID}

\* orders.created_at is DATETIME DEFAULT CURRENT_TIMESTAMP (part_000:96): the
\* second in which the row was inserted.  Ids are given in the order of the
\* INSERTs, so created_at does not decrease with the id, and rows inserted
\* in the same second hold the same created_at.  These are the columns the
\* table can hold.
CreatedAtColumns ==
  {f \in [DOMAIN orders -> 1..Cardinality(DOMAIN orders)] :
     \A i, j \in DOMAIN orders : i < j => f[i] <= f[j]}

\* the sequences that list every element of S once
Listings(S) ==
  {r \in [1..Cardinality(S) -> S] : \A i, j \in 1..Cardinality(S) : r[i] = r[j] => i = j}

\* ORDER BY o.created_at DESC (orders.go:146): rows of equal created_at come
\* in an order SQL does not define
OrderedByCreatedAtDesc(r, f) ==
  \A i \in 1..(Len(r) - 1) : f[r[i]] >= f[r[i + 1]]

\* orders.go:140-174: what a call can return in the current state
GetUserOrdersOutcomes(userID) ==
  {[err |-> "failed to get orders", rows |-> <<>>],
   [err |-> "failed to scan order", rows |-> <<>>]}
  \cup {[err |-> "none", rows |-> r] :
          r \in {l \in Listings(UserOrderIds(userID)) :
                   \E f \in CreatedAtColumns : OrderedByCreatedAtDesc(l, f)}}

GetUserOrders(userID) ==
  /\ nops < MaxOps
  /\ OpenConns < MaxOpenConns
  /\ nops' = nops + 1
  /\ \E o \in GetUserOrdersOutcomes(userID) :
       hres' = RowsResult("GetUserOrders", userID, o.err, o.rows)
  /\ UNCHANGED <<dbVars, nextOrderID, sLock, xLock, pc, tx, leaked>>

\* ------------------------------------- redelivery of an inbound message
\* the subscriptions are QoS 1 (client.go:82): the broker may deliver again
\* the inventory/update the handler handled last, and the handler decodes
\* it to the same arguments
RedeliverInventoryUpdate ==
  /\ hres.op = "UpdateStock"
  /\ UpdateStock(hres.id, hres.arg)
  /\ UNCHANGED <<nops, nextOrderID, sLock, xLock, pc, tx, leaked>>

\* ------------------------------------------ Handlers.handleLowStockAlert
\* handleLowStockAlert ordering more stock and announcing it
handleLowStockAlertReordering(payload) ==
  IF IsMalformed(payload)
  THEN /\ hres' = Result("handleLowStockAlert", 0, 0, "", "failed to parse", FALSE, <<>>)
       /\ UNCHANGED dbVars
  ELSE /\ hres' = Result("handleLowStockAlert", IntField(payload.product_id),
                         IntField(payload.current_stock), "", "none", FALSE,
                         <<LowStockAlert(IntField(payload.product_id),
                                         IntField(payload.current_stock))>>)
       /\ UNCHANGED dbVars

\* handlers.go:103-122: the payload is logged, decoded and logged again
handleLowStockAlert(payload) ==
  /\ hres' = IF IsMalformed(payload)
             THEN Result("handleLowStockAlert", 0, 0, "", "failed to parse", FALSE, <<>>)
             ELSE Result("handleLowStockAlert", IntField(payload.product_id),
                         IntField(payload.current_stock), "", "none", FALSE, <<>>)
  /\ UNCHANGED dbVars

\* a message another client publishes on inventory/low_stock
InboundLowStockAlert(payload) ==
  /\ nops < MaxOps
  /\ nops' = nops + 1
  /\ handleLowStockAlert(payload)
  /\ UNCHANGED <<nextOrderID, sLock, xLock, pc, tx, leaked>>

\* json.Marshal of a models.LowStockAlert (client.go:62-66), as the broker
\* hands it to the subscribers of the topic
AlertPayload(e) ==
  [wellformed |-> TRUE, product_id |-> <<e.product_id>>, current_stock |-> <<e.current_stock>>]

\* the alerts the service has published and the broker still has to deliver
\* to the service's own subscription (handlers.go:50)
OwnAlerts ==
  {hres.emitted[i] : i \in {j \in 1..Len(hres.emitted) :
                               hres.emitted[j].topic = "inventory/low_stock"}}
  \cup UNION {{tx[w].emitted[i] : i \in {j \in 1..Len(tx[w].emitted) :
                                           tx[w].emitted[j].topic = "inventory/low_stock"}}
               : w \in Workers}

\* the broker delivers to the service an alert the service published itself
OwnLowStockAlert ==
  /\ \E e \in OwnAlerts : handleLowStockAlert(AlertPayload(e))
  /\ UNCHANGED <<nops, nextOrderID, sLock, xLock, pc, tx, leaked>>

\* ------------------------------------------------- Login and AuthRequired
\* the key createJWTToken signs with: a literal of the source (part_005:140)
SigningKey == "your-super-secret-jwt-key-change-this-in-production"

\* the fallback of JWT_SECRET in Load (part_001:27)
DefaultJWTSecret == "your-super-secret-jwt-key-change-this-in-production"

\* os.Getenv gives "" for a variable that is not set
getEnv(value, fallback) == IF value # "" THEN value ELSE fallback

\* config.Load, for the one field the middleware is given (part_008:94)
Load(env) == [JWTSecret |-> getEnv(env, DefaultJWTSecret)]

\* the users table: both users are registered
UserEmail == (1 :> "one@example.com") @@ (2 :> "two@example.com")

\* HMAC-SHA256 of the claims under a key: equal for equal claims and key,
\* different otherwise
HS256(claims, key) == <<claims, key>>

\* part_005:126-141; exp is 24 hours ahead and the token is presented
\* before then
createJWTToken(userID, email) ==
  LET claims == [user_id |-> userID, email |-> email]
  IN [claims |-> claims, sig |-> HS256(claims, SigningKey)]

\* the Authorization header of a request: none, or "Bearer " and a token
NoHeader == <<>>

\* auth.go:16-83: what the middleware answers and the user_id it sets
AuthRequired(jwtSecret, header) ==
  IF header = NoHeader
  THEN [err |-> "Authorization header required", user_id |-> 0]
  ELSE IF header[1].sig # HS256(header[1].claims, jwtSecret)
       THEN [err |-> "Invalid token", user_id |-> 0]
       ELSE [err |-> "none", user_id |-> header[1].claims.user_id]

\* AuthService.Login, part_005:80-123: the user is looked up by email, the
\* password is compared, the token is created and user/login is published
Login(req) ==
  /\ nops < MaxOps
  /\ OpenConns < MaxOpenConns
  /\ nops' = nops + 1
  /\ \/ \* the query fails
        hres' = Result("Login", req.user, 0, "", "failed to get user", FALSE, <<>>)
     \/ /\ (req.user \notin DOMAIN UserEmail \/ ~req.passwordOk)
        /\ hres' = Result("Login", req.user, 0, "", "invalid email or password", FALSE, <<>>)
     \/ /\ req.user \in DOMAIN UserEmail /\ req.passwordOk
        /\ \E ok \in BOOLEAN :
             hres' = [Result("Login", req.user, 0, "", "none", ~ok,
                             Publish(<<>>, [topic |-> "user/login", user_id |-> req.user], ok))
                        EXCEPT !.rows = <<createJWTToken(req.user, UserEmail[req.user])>>]
  /\ UNCHANGED <<dbVars, nextOrderID, sLock, xLock, pc, tx, leaked>>

\* a request to a protected route (part_008:92-102) in a process started
\* with JWT_SECRET = env, carrying the given header: the middleware runs
\* before the handler
ProtectedRequest(env, header) ==
  /\ nops < MaxOps
  /\ nops' = nops + 1
  /\ LET a == AuthRequired(Load(env).JWTSecret, header)
     IN hres' = [Result("AuthRequired", a.user_id, 0, "", a.err, FALSE, <<>>)
                   EXCEPT !.rows = header]
  /\ UNCHANGED <<dbVars, nextOrderID, sLock, xLock, pc, tx, leaked>>

\* the headers a client sends: none, or the token a Login returned to it
Headers ==
  {NoHeader} \cup {<<createJWTToken(u, UserEmail[u])>> : u \in DOMAIN UserEmail}

\* ------------------------------------------------------------ the inputs
Field(S) == {<<v>> : v \in S} \cup {Absent}

InventoryPayloads ==
  [wellformed : {TRUE}, product_id : Field(ProductIds \cup {MissingProductID}),
   new_stock : Field({-1, 10})]
  \cup [wellformed : {FALSE}, product_id : {Absent}, new_stock : {Absent}]

PaymentPayloads ==
  [wellformed : {TRUE}, order_id : Field(1..(MaxOps + 1) \cup {MissingOrderID}),
   status : Field({"paid", "failed"})]
  \cup [wellformed : {FALSE}, order_id : {Absent}, status : {Absent}]

LowStockPayloads ==
  [wellformed : {TRUE}, product_id : Field({1}), current_stock : Field({9})]
  \cup [wellformed : {FALSE}, product_id : {Absent}, current_stock : {Absent}]

\* JWT_SECRET not set, set as docker-compose.yml sets it, set as testing.sh
\* sets it
JWTSecretEnv ==
  {"", "your-super-secret-jwt-key-change-this-in-production", "your-super-secret-jwt-key"}

LoginRequests == [user : Users \cup {0}, passwordOk : BOOLEAN]

ProductRequests == [PriceCents : {300}, StockQuantity : {5}]

OrderRequests ==
  [ProductID : ProductIds \cup {MissingProductID},
   Quantity : Quantities \cup RejectedQuantities]

Next ==
  \/ \E w \in Workers, u \in Callers, req \in OrderRequests : CreateOrderBegin(w, u, req)
  \/ \E w \in Workers : CreateOrderInsert(w)
  \/ \E w \in Workers : CreateOrderUpdateStock(w)
  \/ \E w \in Workers : CreateOrderCommit(w)
  \/ \E w \in Workers : CreateOrderPublishCreated(w)
  \/ \E w \in Workers : CreateOrderPublishLowStock(w)
  \/ \E w \in Workers : CreateOrderReturn(w)
  \/ \E payload \in InventoryPayloads : handleInventoryUpdate(payload)
  \/ \E payload \in PaymentPayloads : handlePaymentConfirmed(payload)
  \/ \E id \in ProductIds \cup {MissingProductID}, req \in ProductRequests :
       UpdateProduct(id, req)

Spec == Init /\ [][Next]_vars

\* the same system, with OrderService.UpdateOrderStatus also called directly
NextApi ==
  \/ Next
  \/ \E id \in 1..(MaxOps + 1) \cup {MissingOrderID}, status \in Statuses :
       UpdateOrderStatusCall(id, status)

SpecApi == Init /\ [][NextApi]_vars

\* the same system, with the caller also reading orders
NextQuery ==
  \/ Next
  \/ \E id \in 1..(MaxOps + 1) \cup {MissingOrderID}, u \in Callers : GetOrder(id, u)
  \/ \E u \in Callers : GetUserOrders(u)

SpecQuery == Init /\ [][NextQuery]_vars

\* the same system with its third subscription, inventory/low_stock
NextLoopback ==
  \/ Next
  \/ \E payload \in LowStockPayloads : InboundLowStockAlert(payload)
  \/ OwnLowStockAlert

SpecLoopback == Init /\ [][NextLoopback]_vars

\* every route of main that reaches the orders and every subscription
NextSystem ==
  \/ NextQuery
  \/ \E u \in Callers, req \in OrderRequests : CreateOrderBadRequest(u, req)
  \/ \E payload \in LowStockPayloads : InboundLowStockAlert(payload)
  \/ OwnLowStockAlert
  \/ RedeliverInventoryUpdate

SpecSystem == Init /\ [][NextSystem]_vars

\* the same system with Login and the middleware of the protected routes
NextAuth ==
  \/ Next
  \/ \E req \in LoginRequests : Login(req)
  \/ \E env \in JWTSecretEnv, header \in Headers : ProtectedRequest(env, header)

SpecAuth == Init /\ [][NextAuth]_vars

\* the same system with its reads, late in a run that refused many orders
SpecPool == InitPool /\ [][NextQuery]_vars

\* the same system, with the requests the binding of OrderRequest refuses
NextGateway ==
  \/ Next
  \/ \E u \in Callers, req \in OrderRequests : CreateOrderBadRequest(u, req)

SpecGateway == Init /\ [][NextGateway]_vars

\* the same system under at-least-once delivery of inventory/update
NextRedelivery ==
  \/ Next
  \/ RedeliverInventoryUpdate

SpecRedelivery == Init /\ [][NextRedelivery]_vars

\* the steps a CreateOrder call takes on its own: the goroutine is scheduled
\* and the database answers or fails.  The two Publish steps are left out:
\* Client.Publish returns when token.Wait() does (client.go:71), that is when
\* the broker has answered, and nothing makes a broker answer.
Fairness ==
  \A w \in Workers :
    /\ WF_vars(CreateOrderInsert(w))
    /\ WF_vars(CreateOrderUpdateStock(w))
    /\ WF_vars(CreateOrderCommit(w))
    /\ WF_vars(CreateOrderReturn(w))

SpecFair == Init /\ [][Next]_vars /\ Fairness

\* ======================================================================
\* Properties
\* ======================================================================
NewOrderIds == DOMAIN orders \ DOMAIN InitialOrders

RECURSIVE SumQuantity(_, _)
SumQuantity(ids, p) ==
  IF ids = {} THEN 0
  ELSE LET id == CHOOSE i \in ids : TRUE
       IN (IF orders[id].product_id = p THEN orders[id].quantity ELSE 0)
          + SumQuantity(ids \ {id}, p)

StorageFailures ==
  {"failed to start transaction", "failed to get product", "failed to create order",
   "failed to get order ID", "failed to update stock", "failed to commit transaction"}

\* a step of a message handler or of a service call: it is counted and no
\* CreateOrder call moves
HandlerStep == nops' = nops + 1 /\ pc' = pc

\* w's call is over and says what it returned
Returned(w) == pc[w] = "done"

\* C1: with one unit of product 1 in stock, two CreateOrder calls for
\* quantity 1 that are the only operations of the run and hit no storage
\* failure end with exactly one success and one insufficient-stock failure,
\* exactly one new order row and stock 0.
C1_OneOfTwoOrdersWins ==
  ( /\ nops = 2
    /\ \A w \in Workers :
         /\ Returned(w)
         /\ tx[w].ProductID = 1 /\ tx[w].Quantity = 1
         /\ tx[w].ret \in {"ok", "insufficient stock"} )
  => /\ Cardinality({w \in Workers : tx[w].ret = "ok"}) = 1
     /\ Cardinality({w \in Workers : tx[w].ret = "insufficient stock"}) = 1
     /\ Cardinality(NewOrderIds) = 1
     /\ stock_quantity[1] = 0

\* C2: the stock of every product is never negative.
C2_StockNeverNegative == \A p \in ProductIds : stock_quantity[p] >= 0

\* C3: while only CreateOrder calls have run (no inbound message, no
\* UpdateProduct), the stock of every product is its initial stock minus
\* the quantities of the orders committed for it.
C3_NoLostReservation ==
  hres = NoResult =>
    \A p \in ProductIds :
      stock_quantity[p] = InitialStock[p] - SumQuantity(NewOrderIds, p)

\* C4: CreateOrder is all or nothing.  A step in which a call fails after its
\* transaction began leaves the tables as they were, with no row for the
\* order id it was given; a row enters the orders table only in a step that
\* also writes the stock its transaction computed, and a CreateOrder step
\* that writes the stock also adds its order row.
C4_AllOrNothing ==
  [][ /\ \A w \in Workers :
           (pc[w] \in {"insert", "update", "commit"} /\ pc'[w] = "done")
           => /\ tx'[w].ret \in StorageFailures
              /\ orders' = orders
              /\ stock_quantity' = stock_quantity
              /\ tx'[w].orderID \notin DOMAIN orders'
      /\ \A id \in DOMAIN orders' \ DOMAIN orders :
           \E w \in Workers :
             /\ tx[w].orderID = id
             /\ orders'[id].product_id = tx[w].ProductID
             /\ stock_quantity'[tx[w].ProductID] = tx[w].StockQuantity - tx[w].Quantity
      /\ (pc' # pc /\ stock_quantity' # stock_quantity)
           => DOMAIN orders' # DOMAIN orders
    ]_vars

\* a call failed at Commit, after its insert and its stock write: nothing of
\* it is in the tables
C4_Witness ==
  \E w \in Workers :
    /\ Returned(w)
    /\ tx[w].ret = "failed to commit transaction"
    /\ tx[w].orderID # NoOrderID
    /\ tx[w].orderID \notin DOMAIN orders
    /\ stock_quantity[tx[w].ProductID] = tx[w].StockQuantity

\* C5: an order enters the table with total_cents = the price its
\* transaction read x its quantity, and no later step changes the
\* total_cents or the quantity of an order in the table.
C5_TotalFrozen ==
  [][ /\ \A id \in DOMAIN orders :
           /\ id \in DOMAIN orders'
           /\ orders'[id].total_cents = orders[id].total_cents
           /\ orders'[id].quantity = orders[id].quantity
      /\ \A id \in DOMAIN orders' \ DOMAIN orders :
           \E w \in Workers :
             /\ tx[w].orderID = id
             /\ orders'[id].quantity = tx[w].Quantity
             /\ orders'[id].total_cents = tx[w].PriceCents * tx[w].Quantity
    ]_vars

\* an order created in this run whose product has changed its price since
C5_Witness ==
  \E id \in NewOrderIds :
    orders[id].total_cents # price_cents[orders[id].product_id] * orders[id].quantity

\* C6: UpdateOrderStatus(id, "paid") for an order that exists, also one that
\* is paid already, reports no "order not found" and leaves the order paid.
C6_DuplicatePaymentNoError ==
  ( /\ hres.op = "UpdateOrderStatus"
    /\ hres.status = "paid"
    /\ hres.id \in DOMAIN InitialOrders
    /\ hres.err \notin {"failed to update order status", "failed to get rows affected"} )
  => /\ hres.err = "none"
     /\ orders[hres.id].status = "paid"

StatusRank(status) ==
  CASE status = "pending" -> 0
    [] status = "paid" -> 1
    [] status = "shipped" -> 2
    [] status = "delivered" -> 3

\* C7: no step moves an order to an earlier status of
\* pending < paid < shipped < delivered.
C7_StatusMonotonic ==
  [][ \A id \in DOMAIN orders :
        StatusRank(orders'[id].status) >= StatusRank(orders[id].status) ]_vars

\* C8: a call has published events only if its transaction has committed,
\* and an order/created event it published names a row of the orders table
\* with the same user_id, product_id, quantity and total_cents.
C8_EventsReflectCommit ==
  \A w \in Workers :
    /\ tx[w].emitted # <<>> => tx[w].state = "committed"
    /\ \A i \in 1..Len(tx[w].emitted) :
         LET e == tx[w].emitted[i]
         IN e.topic = "order/created" =>
              /\ e.order_id \in DOMAIN orders
              /\ orders[e.order_id].user_id = e.user_id
              /\ orders[e.order_id].product_id = e.product_id
              /\ orders[e.order_id].quantity = e.quantity
              /\ orders[e.order_id].total_cents = e.total_cents

\* a call has published its order/created event
C8_Witness ==
  \E w \in Workers :
    /\ tx[w].emitted # <<>>
    /\ tx[w].emitted[1].topic = "order/created"
    /\ tx[w].emitted[1].order_id \in NewOrderIds

\* C9: a step in which a Publish fails leaves the tables as the operation
\* wrote them and the operation returns success: CreateOrder returns the
\* order, whose row stays in the table; UpdateOrderStatus and UpdateStock
\* return nil with their write in place.
C9_PublishFailureKeepsWrite ==
  [][ /\ \A w \in Workers :
           (pc[w] \in {"publish_created", "publish_low_stock"} /\ pc'[w] # pc[w])
           => /\ orders' = orders /\ stock_quantity' = stock_quantity
              /\ tx'[w].orderID \in DOMAIN orders'
              /\ tx'[w].state = "committed"
              /\ pc'[w] = "done" => tx'[w].ret = "ok"
      /\ (HandlerStep /\ hres'.pubFailed)
           => /\ hres'.err = "none"
              /\ hres'.op = "UpdateStock" => stock_quantity'[hres'.id] = hres'.arg
              /\ hres'.op = "UpdateOrderStatus" => orders'[hres'.id].status = hres'.status
    ]_vars

\* a CreateOrder call returned its order although a Publish failed
C9_Witness ==
  \E w \in Workers :
    /\ Returned(w) /\ tx[w].pubFailed /\ tx[w].ret = "ok"
    /\ tx[w].orderID \in DOMAIN orders

\* C10: a call that asks for more than the stock it reads, and whose Begin
\* and SELECT do not fail, returns insufficient stock in that step, adds no
\* order row, uses no order id, leaves the stock and publishes nothing.
C10_InsufficientStockNoEffect ==
  [][ \A w \in Workers :
        ( /\ pc[w] = "idle" /\ pc'[w] # "idle"
          /\ tx'[w].ProductID \in ProductIds
          /\ tx'[w].Quantity > stock_quantity[tx'[w].ProductID]
          /\ tx'[w].ret \notin StorageFailures )
        => /\ tx'[w].ret = "insufficient stock"
           /\ pc'[w] = "done"
           /\ orders' = orders
           /\ stock_quantity' = stock_quantity
           /\ nextOrderID' = nextOrderID
           /\ tx'[w].emitted = <<>>
           /\ tx'[w].orderID = NoOrderID
    ]_vars

\* a call for one unit of a product that is out of stock was refused
C10_Witness ==
  \E w \in Workers :
    /\ Returned(w) /\ tx[w].ret = "insufficient stock"
    /\ tx[w].StockQuantity = 0 /\ tx[w].Quantity = 1
    /\ stock_quantity[tx[w].ProductID] = 0

\* the events of a sequence that were published on a topic
EventsOn(events, topic) == SelectSeq(events, LAMBDA e : e.topic = topic)

\* C11: a CreateOrder call that is the only operation of the run and returns
\* its order has added exactly one row to the orders table, pending, owned
\* by the caller, with the quantity asked and total = price x quantity; the
\* product's stock is down by that quantity, every other product, every
\* price and every other order is as before; the call made one Publish of
\* order/created with the row's values, which is the one order/created event
\* it published unless a Publish of the call failed.
C11_CreateOrderAlone ==
  \A w \in Workers :
    (nops = 1 /\ Returned(w) /\ tx[w].ret = "ok")
    => LET t == tx[w]
           p == t.ProductID
           q == t.Quantity
           created == EventsOn(t.emitted, "order/created")
       IN /\ t.userID \in Callers
          /\ t.orderID \notin DOMAIN InitialOrders
          /\ DOMAIN orders = DOMAIN InitialOrders \cup {t.orderID}
          /\ \A id \in DOMAIN InitialOrders : orders[id] = InitialOrders[id]
          /\ orders[t.orderID] =
               [user_id |-> t.userID, product_id |-> p, quantity |-> q,
                total_cents |-> InitialPrice[p] * q, status |-> "pending"]
          /\ stock_quantity = [InitialStock EXCEPT ![p] = @ - q]
          /\ price_cents = InitialPrice
          /\ \/ created = <<[topic |-> "order/created", order_id |-> t.orderID,
                             user_id |-> t.userID, product_id |-> p, quantity |-> q,
                             total_cents |-> InitialPrice[p] * q]>>
             \/ t.pubFailed /\ created = <<>>
          /\ ~t.pubFailed => Len(created) = 1

\* the only call of a run ordered two units of product 2 and published its
\* order/created event
C11_Witness ==
  \E w \in Workers :
    /\ nops = 1 /\ Returned(w) /\ tx[w].ret = "ok"
    /\ tx[w].ProductID = 2 /\ tx[w].Quantity = 2
    /\ stock_quantity[2] = InitialStock[2] - 2
    /\ Len(EventsOn(tx[w].emitted, "order/created")) = 1

\* C12: a CreateOrder call that returns its order has published an
\* inventory/low_stock event, carrying the stock the order left, if that
\* stock is below 10 (unless a Publish of the call failed), and none if it
\* is 10 or more.
C12_LowStockAlertIffBelowTen ==
  \A w \in Workers :
    (Returned(w) /\ tx[w].ret = "ok")
    => LET t == tx[w]
           alerts == EventsOn(t.emitted, "inventory/low_stock")
       IN /\ t.newStock = t.StockQuantity - t.Quantity
          /\ t.newStock >= 10 => alerts = <<>>
          /\ t.newStock < 10 =>
               \/ alerts = <<[topic |-> "inventory/low_stock", product_id |-> t.ProductID,
                              current_stock |-> t.newStock, reorder_level |-> 10]>>
               \/ t.pubFailed /\ alerts = <<>>
          /\ (t.newStock < 10 /\ ~t.pubFailed) => Len(t.emitted) = 2

\* an order that left 9 units published both events
C12_Witness ==
  \E w \in Workers :
    /\ Returned(w) /\ tx[w].ret = "ok" /\ tx[w].newStock = 9
    /\ Len(EventsOn(tx[w].emitted, "inventory/low_stock")) = 1
    /\ Len(EventsOn(tx[w].emitted, "order/created")) = 1

\* C13: in every state, for every user and every order of another user, the
\* answers GetOrder can give for that order's id are the answers it can give
\* for an id no order has: 404 with "order not found" (or with the storage
\* error), never anything of the order; and a GetOrder the caller made for
\* another user's order was answered so.
C13_ForeignOrderLooksMissing ==
  /\ \A u \in Users : \A id \in DOMAIN orders :
       orders[id].user_id # u =>
         /\ GetOrderOutcomes(id, u) = GetOrderOutcomes(MissingOrderID, u)
         /\ \A r \in GetOrderOutcomes(id, u) : r.code = 404 /\ r.order = NoRow
  /\ ( /\ hres.op = "GetOrder"
       /\ hres.id \in DOMAIN orders
       /\ orders[hres.id].user_id # hres.arg )
     => hres.err \in {"order not found", "failed to get order"} /\ hres.status = ""

\* the caller asked for the order of user 1 and got "order not found", and
\* has an order of their own that GetOrder does find
C13_Witness ==
  /\ hres.op = "GetOrder" /\ hres.err = "order not found"
  /\ hres.id \in DOMAIN orders
  /\ orders[hres.id].user_id # hres.arg
  /\ \E id \in NewOrderIds :
       GetOrderAnswer("none", OrderResponse(id)) \in GetOrderOutcomes(id, hres.arg)

\* C14: a step in which handlePaymentConfirmed handles a well formed message
\* whose order_id names no order of the table changes no order, no stock and
\* no price, publishes nothing, and the handler returns with the error of
\* UpdateOrderStatus logged, no CreateOrder call disturbed.
C14_UnknownOrderPaymentDropped ==
  [][ ( /\ HandlerStep
        /\ hres'.op = "UpdateOrderStatus"
        /\ hres'.id \notin DOMAIN orders )
      => /\ orders' = orders
         /\ stock_quantity' = stock_quantity /\ price_cents' = price_cents
         /\ hres'.err \in {"order not found", "failed to update order status",
                           "failed to get rows affected"}
         /\ hres'.emitted = <<>> /\ ~hres'.pubFailed
         /\ tx' = tx
    ]_vars

\* a payment/confirmed for an id no order has was handled after another
\* operation of the run, and UpdateOrderStatus said "order not found"
C14_Witness ==
  /\ nops = 2
  /\ hres.op = "UpdateOrderStatus" /\ hres.id = MissingOrderID
  /\ hres.err = "order not found" /\ hres.emitted = <<>>

\* C15: a step in which handleInventoryUpdate or handlePaymentConfirmed
\* handles a payload that json.Unmarshal rejects calls no service method
\* (the result is the handler's own), changes no product and no order,
\* publishes nothing and returns.
C15_MalformedPayloadDiscarded ==
  [][ HandlerStep =>
        /\ \A payload \in InventoryPayloads :
             (~payload.wellformed /\ handleInventoryUpdate(payload))
             => /\ UNCHANGED dbVars
                /\ hres'.op = "handleInventoryUpdate" /\ hres'.err = "failed to parse"
                /\ hres'.emitted = <<>> /\ ~hres'.pubFailed
                /\ tx' = tx
        /\ \A payload \in PaymentPayloads :
             (~payload.wellformed /\ handlePaymentConfirmed(payload))
             => /\ UNCHANGED dbVars
                /\ hres'.op = "handlePaymentConfirmed" /\ hres'.err = "failed to parse"
                /\ hres'.emitted = <<>> /\ ~hres'.pubFailed
                /\ tx' = tx
    ]_vars

\* a malformed inventory/update was discarded after an earlier message had
\* changed the stock
C15_Witness ==
  /\ hres.op = "handleInventoryUpdate" /\ hres.err = "failed to parse"
  /\ stock_quantity # InitialStock

\* C16: a step in which handleInventoryUpdate handles {product_id p,
\* new_stock n} for a product p of the table, with no storage failure, sets
\* the stock of p to n, leaves every other stock, every price and every
\* order, and publishes one inventory/low_stock event carrying n if n < 10
\* (unless the Publish fails) and none otherwise.
C16_InventoryUpdateSetsStock ==
  [][ HandlerStep =>
        \A payload \in InventoryPayloads :
          ( /\ payload.wellformed
            /\ payload.product_id # Absent /\ payload.new_stock # Absent
            /\ payload.product_id[1] \in ProductIds
            /\ handleInventoryUpdate(payload)
            /\ hres'.err \notin {"failed to update stock", "failed to get product"} )
          => LET p == payload.product_id[1]
                 n == payload.new_stock[1]
             IN /\ stock_quantity' = [stock_quantity EXCEPT ![p] = n]
                /\ price_cents' = price_cents /\ orders' = orders
                /\ tx' = tx
                /\ hres'.err = "none"
                /\ n >= 10 => hres'.emitted = <<>> /\ ~hres'.pubFailed
                /\ n < 10 =>
                     \/ hres'.emitted = <<[topic |-> "inventory/low_stock", product_id |-> p,
                                           current_stock |-> n, reorder_level |-> 10]>>
                     \/ hres'.pubFailed /\ hres'.emitted = <<>>
                /\ ~hres'.pubFailed => Len(hres'.emitted) = (IF n < 10 THEN 1 ELSE 0)
    ]_vars

\* an inventory/update set the stock of a product to 10, from another value,
\* and published nothing
C16_Witness ==
  /\ hres.op = "UpdateStock" /\ hres.err = "none"
  /\ hres.id \in ProductIds /\ hres.arg = 10
  /\ stock_quantity[hres.id] = 10 /\ InitialStock[hres.id] # 10
  /\ hres.emitted = <<>>

\* C17: UpdateStock for a product id the table does not have, with no
\* storage failure, returns "product not found" and publishes nothing,
\* whatever newStock is.
C17_UpdateStockMissingProductNotFound ==
  ( /\ hres.op = "UpdateStock"
    /\ hres.id \notin ProductIds
    /\ hres.err \notin {"failed to update stock", "failed to get product"} )
  => hres.err = "product not found" /\ hres.emitted = <<>>

\* C19: a step in which handlePaymentConfirmed handles a message for an
\* order of the table, and whose UPDATE does not fail, leaves that order
\* paid whatever CreateOrder calls are under way; and no step of the system
\* takes an order out of paid.
C19_PaymentConfirmationNotLost ==
  [][ /\ ( /\ HandlerStep
           /\ hres'.op = "UpdateOrderStatus"
           /\ hres'.id \in DOMAIN orders
           /\ hres'.err # "failed to update order status" )
         => /\ hres'.status = "paid"
            /\ orders'[hres'.id].status = "paid"
      /\ \A id \in DOMAIN orders :
           orders[id].status = "paid" => orders'[id].status = "paid"
    ]_vars

\* the payment of an order created in this run was confirmed
C19_Witness ==
  /\ hres.op = "UpdateOrderStatus" /\ hres.err = "none"
  /\ hres.id \in NewOrderIds
  /\ orders[hres.id].status = "paid"

\* C18: when the stock of a product is what the delivery of an
\* inventory/update set, less the quantities of the orders committed for the
\* product since, a redelivery of that message leaves every stock as it is:
\* the final stock is the one of a single delivery.
C18_RedeliveryKeepsStock ==
  [][ ( /\ hres.err = "none"
        /\ hres.id \in ProductIds
        /\ stock_quantity[hres.id] = hres.arg - SumQuantity(NewOrderIds, hres.id)
        /\ RedeliverInventoryUpdate )
      => stock_quantity' = stock_quantity ]_vars

\* C20: a CreateOrder call that has committed and is publishing returns,
\* whether or not the broker ever answers the Publish.
C20_PublishNeverBlocks ==
  \A w \in Workers :
    (pc[w] \in {"publish_created", "publish_low_stock"}) ~> (pc[w] = "done")

\* C21: a step that handles a create-order request with quantity < 1 is the
\* gateway's refusal: it answers invalid request, starts no CreateOrder call
\* (no transaction, no order id, no lock), leaves every order, stock and
\* price, and publishes nothing.
C21_BadQuantityRejected ==
  [][ \A req \in OrderRequests, u \in Callers :
        ( /\ req.Quantity < 1
          /\ \/ CreateOrderBadRequest(u, req)
             \/ \E w \in Workers : CreateOrderBegin(w, u, req) )
        => /\ UNCHANGED <<dbVars, nextOrderID, sLock, xLock, pc, tx, leaked>>
           /\ hres'.op = "CreateOrder" /\ hres'.err = "invalid request"
           /\ hres'.emitted = <<>>
    ]_vars

\* a request for quantity 0 was refused after an order had been placed, and
\* the stock is what that order left
C21_Witness ==
  /\ hres.op = "CreateOrder" /\ hres.err = "invalid request" /\ hres.arg = 0
  /\ NewOrderIds # {}
  /\ \A p \in ProductIds : stock_quantity[p] <= InitialStock[p]

\* C22: a CreateOrder call for a product id the table does not have, whose
\* Begin and SELECT do not fail, returns "product not found" in that step
\* with its transaction rolled back (no connection kept, no lock held),
\* having added no order row, used no order id, changed no stock and
\* published nothing.
C22_MissingProductNoEffect ==
  [][ \A w \in Workers :
        ( /\ pc[w] = "idle" /\ pc'[w] # "idle"
          /\ tx'[w].ProductID \notin ProductIds
          /\ tx'[w].ret \notin StorageFailures )
        => /\ tx'[w].ret = "product not found"
           /\ pc'[w] = "done"
           /\ tx'[w].state = "rolledback"
           /\ leaked' = leaked
           /\ UNCHANGED <<dbVars, nextOrderID, sLock, xLock>>
           /\ tx'[w].emitted = <<>>
           /\ tx'[w].orderID = NoOrderID
           /\ tx'[w].pendingOrder = NoRow /\ ~tx'[w].pendingStock
    ]_vars

\* a call for a product the table does not have has returned, its
\* transaction rolled back
C22_Witness ==
  \E w \in Workers :
    /\ Returned(w) /\ tx[w].ret = "product not found"
    /\ tx[w].ProductID = MissingProductID
    /\ tx[w].state = "rolledback" /\ leaked = 0

\* C23: whatever GetUserOrders(u) returns without a storage error lists
\* every order of u once and no order of another user, each order before
\* every order created earlier (an order created later has the greater id).
C23_UserOrdersNewestFirst ==
  \A u \in Users : \A o \in GetUserOrdersOutcomes(u) :
    o.err = "none" =>
      /\ {o.rows[i] : i \in 1..Len(o.rows)} = UserOrderIds(u)
      /\ Len(o.rows) = Cardinality(UserOrderIds(u))
      /\ \A i, j \in 1..Len(o.rows) : i < j => o.rows[i] > o.rows[j]

\* C24: a step of UpdateOrderStatus publishes an order/status_changed event
\* only if it returns nil, and then the order is in the table with the
\* status it was called with and the event carries that order id and that
\* status; it publishes the event once (unless the Publish fails) and
\* nothing else; a call that returns an error, or whose id names no order,
\* publishes nothing; and no other operation publishes on that topic.
C24_StatusChangedEventAfterWrite ==
  [][ /\ (HandlerStep /\ hres'.op = "UpdateOrderStatus") =>
           /\ hres'.emitted # <<>> =>
                /\ hres'.err = "none"
                /\ hres'.id \in DOMAIN orders
                /\ orders[hres'.id].status # hres'.status
                /\ orders'[hres'.id].status = hres'.status
                /\ hres'.emitted = <<[topic |-> "order/status_changed",
                                      order_id |-> hres'.id, status |-> hres'.status]>>
           /\ (hres'.err = "none" /\ ~hres'.pubFailed) => Len(hres'.emitted) = 1
           /\ hres'.err # "none" => hres'.emitted = <<>>
           /\ hres'.id \notin DOMAIN orders => hres'.emitted = <<>>
      /\ (HandlerStep /\ hres'.op # "UpdateOrderStatus") =>
           EventsOn(hres'.emitted, "order/status_changed") = <<>>
      /\ \A w \in Workers : EventsOn(tx'[w].emitted, "order/status_changed") = <<>>
    ]_vars

\* UpdateOrderStatus moved an order to shipped and published the event
C24_Witness ==
  /\ hres.op = "UpdateOrderStatus" /\ hres.err = "none"
  /\ hres.status = "shipped" /\ orders[hres.id].status = "shipped"
  /\ Len(hres.emitted) = 1 /\ hres.emitted[1].status = "shipped"

\* C25: a step in which handlePaymentConfirmed handles a decodable payload
\* naming an order of the table, and whose UPDATE does not fail, calls
\* UpdateOrderStatus with "paid" and leaves the order paid, whether the
\* payload's status is absent, "paid" or "failed"; every order's status
\* stays one of the table's enum.
C25_PayloadStatusIgnored ==
  [][ HandlerStep =>
        \A payload \in PaymentPayloads :
          ( /\ payload.wellformed
            /\ handlePaymentConfirmed(payload) )
          => /\ hres'.op = "UpdateOrderStatus" /\ hres'.status = "paid"
             /\ hres'.id = IntField(payload.order_id)
             /\ \A id \in DOMAIN orders' : orders'[id].status \in Statuses
             /\ ( /\ hres'.id \in DOMAIN orders
                  /\ hres'.err # "failed to update order status" )
                => orders'[hres'.id].status = "paid"
             /\ \A id \in DOMAIN orders \ {hres'.id} : orders'[id] = orders[id]
    ]_vars

\* the order placed before the run was set to paid by a payment/confirmed
\* (the step is the same for every status the payload carries)
C25_Witness ==
  /\ hres.op = "UpdateOrderStatus" /\ hres.status = "paid" /\ hres.err = "none"
  /\ hres.id \in DOMAIN InitialOrders
  /\ orders[hres.id].status = "paid"
  /\ hres.emitted = <<[topic |-> "order/status_changed", order_id |-> hres.id, status |-> "paid"]>>

\* C26: every inventory/low_stock event carries reorder_level 10 and a
\* current_stock below 10.  The event a CreateOrder call publishes names the
\* call's product and carries the stock the call's transaction committed for
\* it; the event a handler step publishes comes from UpdateStock, names the
\* product UpdateStock wrote and carries the stock it wrote in that step.
\* No other operation publishes on the topic and no call publishes it twice.
C26_LowStockEventCarriesWrittenStock ==
  [][ /\ \A w \in Workers :
           /\ (pc[w] = "commit" /\ tx'[w].state = "committed") =>
                stock_quantity'[tx'[w].ProductID] = tx'[w].newStock
           /\ Len(EventsOn(tx'[w].emitted, "inventory/low_stock")) <= 1
           /\ \A i \in 1..Len(tx'[w].emitted) :
                tx'[w].emitted[i].topic = "inventory/low_stock" =>
                  /\ tx'[w].emitted[i].reorder_level = 10
                  /\ tx'[w].emitted[i].current_stock < 10
                  /\ tx'[w].state = "committed"
                  /\ tx'[w].emitted[i].product_id = tx'[w].ProductID
                  /\ tx'[w].emitted[i].current_stock = tx'[w].newStock
                  /\ tx'[w].newStock = tx'[w].StockQuantity - tx'[w].Quantity
      /\ HandlerStep =>
           /\ Len(EventsOn(hres'.emitted, "inventory/low_stock")) <= 1
           /\ \A i \in 1..Len(hres'.emitted) :
                hres'.emitted[i].topic = "inventory/low_stock" =>
                  /\ hres'.op = "UpdateStock"
                  /\ hres'.emitted[i].reorder_level = 10
                  /\ hres'.emitted[i].current_stock < 10
                  /\ hres'.emitted[i].product_id = hres'.id
                  /\ hres'.emitted[i].current_stock = hres'.arg
                  /\ stock_quantity'[hres'.id] = hres'.arg
    ]_vars

\* a CreateOrder call published a low-stock alert after its commit, and an
\* inventory/update published one for the stock it set
C26_Witness ==
  /\ \E w \in Workers :
       /\ Returned(w) /\ tx[w].ret = "ok"
       /\ EventsOn(tx[w].emitted, "inventory/low_stock")
            = <<[topic |-> "inventory/low_stock", product_id |-> tx[w].ProductID,
                 current_stock |-> tx[w].newStock, reorder_level |-> 10]>>
  /\ hres.op = "UpdateStock"
  /\ Len(EventsOn(hres.emitted, "inventory/low_stock")) = 1

\* C27: a CreateOrder call that has returned, whatever it returned, has no
\* transaction left open: the one it began is committed or rolled back (a
\* call whose Begin failed began none).
C27_TransactionEndedOnReturn ==
  \A w \in Workers :
    Returned(w) =>
      /\ tx[w].state \in {"none", "committed", "rolledback"}
      /\ tx[w].state = "none" <=> tx[w].ret = "failed to start transaction"

\* C28: whenever no CreateOrder call is under way, the pool has a connection
\* to give: the next CreateOrder, GetOrder, GetUserOrders or message handler
\* (each of which waits for OpenConns < MaxOpenConns) can run, however many
\* orders were refused before.
C28_ConnectionAvailable ==
  (\A w \in Workers : pc[w] \in {"idle", "done"}) => OpenConns < MaxOpenConns

\* C29: when a CreateOrder call that read the stock the run started with has
\* returned its order, and an inventory/update (or an UpdateProduct) for the
\* same product has been applied, and these are the two operations of the
\* run, the product's stock is what one of the two serial orders leaves:
\* the value set (order first), or the value set less the ordered quantity
\* (update first, when the value set covers the quantity).
C29_StockWritesSerialize ==
  \A w \in Workers :
    ( /\ nops = MaxOps
      /\ Returned(w) /\ tx[w].ret = "ok"
      /\ tx[w].StockQuantity = InitialStock[tx[w].ProductID]
      /\ hres.id = tx[w].ProductID /\ hres.err = "none" )
    => /\ hres.op = "UpdateStock" =>
            stock_quantity[hres.id] \in
              {hres.arg} \cup {hres.arg - tx[w].Quantity : x \in {y \in {hres.arg} : y >= tx[w].Quantity}}
       /\ hres.op = "UpdateProduct" =>
            \A req \in ProductRequests :
              stock_quantity[hres.id] \in
                {req.StockQuantity}
                  \cup {req.StockQuantity - tx[w].Quantity : x \in {y \in {req.StockQuantity} : y >= tx[w].Quantity}}

\* C30: a step in which handleLowStockAlert handles a message, from another
\* client or one of the service's own alerts coming back from the broker,
\* changes no product, no order, no transaction and no lock and publishes
\* nothing, so the alert that comes back is not answered by another alert;
\* and every step that handles one inbound message publishes at most one
\* event.
C30_LowStockAlertOnlyLogged ==
  [][ /\ (pc' = pc /\ hres'.op = "handleLowStockAlert") =>
           /\ UNCHANGED <<dbVars, nextOrderID, sLock, xLock, tx, leaked>>
           /\ hres'.emitted = <<>>
           /\ hres'.pubFailed = FALSE
      /\ \A payload \in LowStockPayloads :
           InboundLowStockAlert(payload) =>
             (hres'.op = "handleLowStockAlert" /\ hres'.emitted = <<>>)
      /\ OwnLowStockAlert => (hres'.op = "handleLowStockAlert" /\ OwnAlerts' \subseteq OwnAlerts)
      /\ HandlerStep => Len(hres'.emitted) <= 1
    ]_vars

\* the alert a CreateOrder call published came back to the service and was
\* logged: the stock is the one the order left and nothing was published
C30_Witness ==
  /\ hres.op = "handleLowStockAlert" /\ hres.err = "none" /\ hres.emitted = <<>>
  /\ \E w \in Workers :
       /\ Returned(w) /\ tx[w].ret = "ok"
       /\ LowStockAlert(hres.id, hres.arg) \in OwnAlerts
       /\ hres.id = tx[w].ProductID /\ hres.arg = tx[w].newStock
       /\ stock_quantity[hres.id] = hres.arg

\* C31: in every state each order's status is pending or paid; an order that
\* enters the table enters it pending; and a step that changes the status
\* of an order is a step of handlePaymentConfirmed's UpdateOrderStatus that
\* sets it to paid.  Steps are those of every route and every subscription.
C31_StatusPendingOrPaid ==
  /\ [](\A id \in DOMAIN orders : orders[id].status \in {"pending", "paid"})
  /\ [][ /\ \A id \in DOMAIN orders' \ DOMAIN orders : orders'[id].status = "pending"
         /\ \A id \in DOMAIN orders :
              /\ id \in DOMAIN orders'
              /\ orders'[id].status # orders[id].status =>
                   /\ orders[id].status = "pending" /\ orders'[id].status = "paid"
                   /\ HandlerStep
                   /\ hres'.op = "UpdateOrderStatus" /\ hres'.id = id
                   /\ hres'.status = "paid"
     ]_vars

\* an order created in the run is pending while the order placed before
\* the run has been paid
C31_Witness ==
  /\ \E id \in NewOrderIds : orders[id].status = "pending"
  /\ \E id \in DOMAIN InitialOrders :
       InitialOrders[id].status = "pending" /\ orders[id].status = "paid"

\* C32: a step in which handleInventoryUpdate handles a decodable payload
\* that does not carry new_stock leaves every product's stock as it was and
\* publishes nothing; a step that handles a decodable inventory/update
\* without product_id, or a decodable payment/confirmed without order_id,
\* changes no product and no order.
C32_AbsentFieldChangesNothing ==
  [][ HandlerStep =>
        /\ \A payload \in InventoryPayloads :
             (payload.wellformed /\ handleInventoryUpdate(payload)) =>
               /\ payload.new_stock = Absent =>
                    (stock_quantity' = stock_quantity /\ hres'.emitted = <<>>)
               /\ payload.product_id = Absent => UNCHANGED dbVars
        /\ \A payload \in PaymentPayloads :
             (payload.wellformed /\ handlePaymentConfirmed(payload)) =>
               (payload.order_id = Absent => UNCHANGED dbVars)
    ]_vars

\* C33: whatever JWT_SECRET the process was started with, a request that
\* carries the token a successful Login has just returned passes
\* AuthRequired, and the user_id the middleware sets is the user who logged
\* in.
C33_IssuedTokenAccepted ==
  [][ (HandlerStep /\ hres.op = "Login" /\ hres.err = "none") =>
        \A env \in JWTSecretEnv :
          ProtectedRequest(env, hres.rows) =>
            (hres'.err = "none" /\ hres'.id = hres.id)
    ]_vars

====
